---- MODULE Spec2Model ----
(***************************************************************************)
(* Model of src/coreclr/src/corefx/System.Globalization.Native/            *)
(* pal_localeStringData.c: the two PAL entry points                        *)
(* GlobalizationNative_GetLocaleInfoString and                             *)
(* GlobalizationNative_GetLocaleTimeFormat, with the adapters they         *)
(* dispatch to.                                                            *)
(*                                                                         *)
(* The internationalization library (ICU) is the environment.  Its answers *)
(* for one call are the record icu: the length of the string it returns,   *)
(* which of its fallible calls (if any) fails and with what status, the    *)
(* success status of an open, the outcome of calloc and of GetLocale.      *)
(* The string the library returns for a query q is Answer(q, n): n code    *)
(* units each labelled with q, so that two different queries never give    *)
(* the same non-empty string.                                              *)
(*                                                                         *)
(* A call is executed on a machine record m that is threaded through the   *)
(* statements of the C code:                                               *)
(*   m.value  the caller's output buffer (C index i is m.value[i+1])       *)
(*   m.st     the UErrorCode a library call leaves in *status              *)
(*   m.r      the value a library call returns (a handle, a length)        *)
(*   m.str    the char/UChar string a library call returns or fills in     *)
(*   m.n      the number of fallible library calls made so far             *)
(*   m.log    the library calls made, in order                             *)
(*   m.hNum, m.hDat, m.hBuf  open UNumberFormat, UDateFormat handles and   *)
(*            live calloc'ed buffers                                       *)
(*   m.badClose  a close or free of a handle whose open failed             *)
(*   m.oob    a write outside the caller's buffer                          *)
(*   m.failed the queries the library has failed: it is deterministic, and *)
(*            fails a query again when the call repeats it                 *)
(***************************************************************************)
EXTENDS Integers, Sequences, FiniteSets, TLC

VARIABLES pc, call, icu, before, value, ret, status, log, numOpen, datOpen, bufLive,
          badClose, oob

vars == <<pc, call, icu, before, value, ret, status, log, numOpen, datOpen, bufLive,
          badClose, oob>>

\* ---------------------------------------------------------------- bounds
MaxValueLength == 11
MaxStr == 3
MaxDigitLen == 2
MaxFaultAt == 3

\* ------------------------------------------------- UErrorCode (utypes.h)
U_ZERO_ERROR == 0
U_ILLEGAL_ARGUMENT_ERROR == 1
U_MEMORY_ALLOCATION_ERROR == 7
U_BUFFER_OVERFLOW_ERROR == 15
U_UNSUPPORTED_ERROR == 16
U_USING_DEFAULT_WARNING == -127
U_STRING_NOT_TERMINATED_WARNING == -124

U_FAILURE(x) == x > U_ZERO_ERROR
U_SUCCESS(x) == x <= U_ZERO_ERROR

\* ---------------------------------------- UNumberFormatSymbol (unum.h)
UNUM_DECIMAL_SEPARATOR_SYMBOL == 0
UNUM_GROUPING_SEPARATOR_SYMBOL == 1
UNUM_PERCENT_SYMBOL == 3
UNUM_ZERO_DIGIT_SYMBOL == 4
UNUM_MINUS_SIGN_SYMBOL == 6
UNUM_PLUS_SIGN_SYMBOL == 7
UNUM_CURRENCY_SYMBOL == 8
UNUM_INTL_CURRENCY_SYMBOL == 9
UNUM_MONETARY_SEPARATOR_SYMBOL == 10
UNUM_PERMILL_SYMBOL == 12
UNUM_INFINITY_SYMBOL == 14
UNUM_NAN_SYMBOL == 15
UNUM_MONETARY_GROUPING_SEPARATOR_SYMBOL == 17
UNUM_ONE_DIGIT_SYMBOL == 18
UNUM_NINE_DIGIT_SYMBOL == 26

ULOC_FULLNAME_CAPACITY == 157
CurrencyCodeCapacity == 4

ULOC_US == "en_US"
ULOC_ENGLISH == "en"

\* ------------------------------------------------------------ characters
\* A code unit: the query it answers, its position in the answer, its glyph
\* and its width in bits (8: char, 16: UChar).
Query(fn, sym, arg, locale) == [fn |-> fn, sym |-> sym, arg |-> arg, locale |-> locale]
NoQuery == Query("none", 0, "", "")
NUL == [q |-> NoQuery, i |-> 0, c |-> "NUL", w |-> 16]
Junk == [q |-> NoQuery, i |-> 0, c |-> "junk", w |-> 16]

\* The string the library holds for query q, n units long, of width w.  The
\* parent-locale name has an underscore as its second unit ("zh_Hant").
Answer(q, n, w) ==
    [i \in 1..n |-> [q |-> q, i |-> i,
                     c |-> IF q.fn = "uloc_getParent" /\ i = 2 THEN "_" ELSE "x",
                     w |-> w]]

\* ----------------------------------------------------------- the machine
M0(buf, answers) ==
    [value |-> buf, st |-> U_ZERO_ERROR, r |-> 0, str |-> <<>>, n |-> 0, log |-> <<>>,
     hNum |-> 0, hDat |-> 0, hBuf |-> 0, badClose |-> FALSE, oob |-> FALSE,
     failed |-> {}, icu |-> answers]

Event(fn, q, dst, off, cap, st) ==
    [fn |-> fn, q |-> q, dst |-> dst, off |-> off, cap |-> cap, st |-> st]

Logged(m, e) == [m EXCEPT !.log = Append(@, e)]

\* Whether the next fallible library call, the query q, fails: it is the call the
\* library fails, or a query it has failed before.
Faulted(m, q) == m.icu.faultAt = m.n + 1 \/ q \in m.failed

\* The machine after one more fallible library call, the query q.
Counted(m, q) ==
    [m EXCEPT !.n = @ + 1, !.failed = IF Faulted(m, q) THEN @ \cup {q} ELSE @]

\* Store s into the caller's buffer from C index off on; an index outside the
\* buffer is a write out of bounds.
Store(m, off, s) ==
    LET inside(i) == off + i - 1 >= 0 /\ off + i - 1 < Len(m.value)
    IN [m EXCEPT
          !.value = [j \in 1..Len(m.value) |->
                       IF j - off >= 1 /\ j - off <= Len(s) THEN s[j - off] ELSE m.value[j]],
          !.oob = @ \/ \E i \in 1..Len(s) : ~inside(i)]

\* The library's way of returning a string s into (dest + off, cap): nothing when
\* *status already holds a failure; illegal argument for a negative capacity; the
\* string and a terminator when both fit; the string alone, with
\* U_STRING_NOT_TERMINATED_WARNING, when only it fits; U_BUFFER_OVERFLOW_ERROR
\* otherwise, with the first cap units written by the functions that fill as they
\* go (partial) and nothing by those that extract a finished string.
LibReturn(m, fn, q, s, dst, off, cap, partial) ==
    LET st == IF U_FAILURE(m.st) THEN m.st
              ELSE IF Faulted(m, q) THEN m.icu.faultStatus
              ELSE IF cap < 0 THEN U_ILLEGAL_ARGUMENT_ERROR
              ELSE IF Len(s) < cap THEN m.st
              ELSE IF Len(s) = cap THEN U_STRING_NOT_TERMINATED_WARNING
              ELSE U_BUFFER_OVERFLOW_ERROR
        natural == ~U_FAILURE(m.st) /\ ~Faulted(m, q) /\ cap >= 0
        out == IF ~natural THEN <<>>
               ELSE IF Len(s) < cap THEN s \o <<NUL>>
               ELSE IF Len(s) = cap THEN s
               ELSE IF partial THEN SubSeq(s, 1, cap)
               ELSE <<>>
        m1 == IF dst = "value" THEN Store(m, off, out) ELSE [m EXCEPT !.str = out]
    IN Logged([Counted(m1, q) EXCEPT !.st = st, !.r = IF natural THEN Len(s) ELSE 0],
              Event(fn, q, dst, off, cap, st))

\* ------------------------------------------------------ library: handles
unum_open(m, locale) ==
    LET q == Query("unum_open", 0, "UNUM_DECIMAL", locale)
        ok == ~U_FAILURE(m.st) /\ ~Faulted(m, q)
        st == IF U_FAILURE(m.st) THEN m.st
              ELSE IF Faulted(m, q) THEN m.icu.faultStatus ELSE m.icu.openStatus
    IN Logged([Counted(m, q) EXCEPT !.st = st, !.r = IF ok THEN 1 ELSE 0,
                                    !.hNum = @ + (IF ok THEN 1 ELSE 0)],
              Event("unum_open", q, "handle", 0, 0, st))

unum_close(m, pFormat) ==
    Logged([m EXCEPT !.hNum = @ - (IF pFormat # 0 THEN 1 ELSE 0),
                     !.badClose = @ \/ pFormat = 0],
           Event("unum_close", NoQuery, "handle", 0, 0, m.st))

udat_open(m, timeStyle, dateStyle, locale) ==
    LET q == Query("udat_open", 0, timeStyle, locale)
        ok == ~U_FAILURE(m.st) /\ ~Faulted(m, q)
        st == IF U_FAILURE(m.st) THEN m.st
              ELSE IF Faulted(m, q) THEN m.icu.faultStatus ELSE m.icu.openStatus
    IN Logged([Counted(m, q) EXCEPT !.st = st, !.r = IF ok THEN 1 ELSE 0,
                                    !.hDat = @ + (IF ok THEN 1 ELSE 0)],
              Event("udat_open", q, "handle", 0, 0, st))

udat_close(m, pFormat) ==
    Logged([m EXCEPT !.hDat = @ - (IF pFormat # 0 THEN 1 ELSE 0),
                     !.badClose = @ \/ pFormat = 0],
           Event("udat_close", NoQuery, "handle", 0, 0, m.st))

calloc(m, length) ==
    LET ok == ~m.icu.callocNull
    IN Logged([m EXCEPT !.r = IF ok THEN 1 ELSE 0, !.hBuf = @ + (IF ok THEN 1 ELSE 0)],
              Event("calloc", NoQuery, "heap", 0, length,
                    IF ok THEN U_ZERO_ERROR ELSE U_MEMORY_ALLOCATION_ERROR))

free(m, buf) ==
    Logged([m EXCEPT !.hBuf = @ - (IF buf # 0 THEN 1 ELSE 0),
                     !.badClose = @ \/ buf = 0],
           Event("free", NoQuery, "heap", 0, 0, m.st))

\* ------------------------------------------------------ library: queries
unum_getSymbol(m, locale, symbol, off, cap) ==
    LET q == Query("unum_getSymbol", symbol, "", locale)
    IN LibReturn(m, "unum_getSymbol", q, Answer(q, m.icu.len, 16), "value", off, cap, FALSE)

udat_getSymbols(m, locale, type, index, off, cap) ==
    LET q == Query("udat_getSymbols", index, type, locale)
    IN LibReturn(m, "udat_getSymbols", q, Answer(q, m.icu.len, 16), "value", off, cap, FALSE)

udat_toPattern(m, locale, style, off, cap) ==
    LET q == Query("udat_toPattern", 0, style, locale)
    IN LibReturn(m, "udat_toPattern", q, Answer(q, m.icu.len, 16), "value", off, cap, FALSE)

uloc_getDisplay(m, fn, locale, displayLocale, off, cap) ==
    LET q == Query(fn, 0, displayLocale, locale)
    IN LibReturn(m, fn, q, Answer(q, m.icu.len, 16), "value", off, cap, TRUE)

\* uloc_getLanguage, uloc_getCountry, uloc_getParent: a char string into a local
\* buffer of the adapter.
uloc_getChars(m, fn, locale, cap) ==
    LET q == Query(fn, 0, "", locale)
    IN LibReturn(m, fn, q, Answer(q, m.icu.len, 8), "local", 0, cap, TRUE)

\* uloc_getISO3Language, uloc_getISO3Country: a pointer to the library's own
\* string, empty when the library has none; no status.
uloc_getISO3(m, fn, locale) ==
    LET q == Query(fn, 0, "", locale)
    IN Logged([m EXCEPT !.str = Answer(q, m.icu.len, 8), !.r = m.icu.len],
              Event(fn, q, "none", 0, 0, m.st))

ucurr_forLocale(m, locale, cap) ==
    LET q == Query("ucurr_forLocale", 0, "", locale)
    IN LibReturn(m, "ucurr_forLocale", q, Answer(q, 3, 16), "local", 0, cap, FALSE)

\* ucurr_getName: a pointer to the library's long name, in the display locale,
\* of the currency (named here by the locale it is the currency of), and its length.
ucurr_getName(m, currency, locale) ==
    LET q == Query("ucurr_getName", 0,
                   IF currency = <<>> THEN "" ELSE currency[1].q.locale, locale)
        ok == ~U_FAILURE(m.st) /\ ~Faulted(m, q)
        st == IF U_FAILURE(m.st) THEN m.st
              ELSE IF Faulted(m, q) THEN m.icu.faultStatus ELSE m.icu.openStatus
    IN Logged([Counted(m, q) EXCEPT !.st = st,
                        !.str = IF ok THEN Answer(q, m.icu.len, 16) ELSE <<>>,
                        !.r = IF ok THEN m.icu.len ELSE 0],
              Event("ucurr_getName", q, "none", 0, 0, st))

\* --------------------------------- helpers of the repository (pal_locale.c)
\* The C string held in a char buffer: the units before the first terminator.
RECURSIVE CStr(_)
CStr(s) == IF s = <<>> \/ s[1].c = "NUL" THEN <<>> ELSE <<s[1]>> \o CStr(Tail(s))

Terminated(s) == \E i \in 1..Len(s) : s[i].c = "NUL"

\* u_charsToUChars: each char widened to a UChar.
u_charsToUChars(s) == [i \in 1..Len(s) |-> [s[i] EXCEPT !.w = 16]]

\* u_charsToUChars_safe: U_BUFFER_OVERFLOW_ERROR unless the string and its
\* terminator fit; otherwise the string converted, and terminated.
u_charsToUChars_safe(m, str, valueLength) ==
    LET len == Len(str)
        q == IF str = <<>> THEN NoQuery ELSE str[1].q
    IN IF len >= valueLength
       THEN Logged([m EXCEPT !.st = U_BUFFER_OVERFLOW_ERROR],
                   Event("u_charsToUChars_safe", q, "value", 0, valueLength,
                         U_BUFFER_OVERFLOW_ERROR))
       ELSE Logged([Store(m, 0, u_charsToUChars(str) \o <<NUL>>) EXCEPT !.st = U_ZERO_ERROR],
                   Event("u_charsToUChars_safe", q, "value", 0, valueLength, U_ZERO_ERROR))

\* FixupLocaleName: every '_' before the terminator becomes '-'.
FixupLocaleName(m, valueLength) ==
    LET end == IF Terminated(m.value)
               THEN CHOOSE i \in 1..Len(m.value) :
                        m.value[i].c = "NUL" /\ \A j \in 1..(i - 1) : m.value[j].c # "NUL"
               ELSE Len(m.value) + 1
    IN [m EXCEPT !.value = [j \in 1..Len(m.value) |->
                              IF j < end /\ j <= valueLength /\ m.value[j].c = "_"
                              THEN [m.value[j] EXCEPT !.c = "-"] ELSE m.value[j]]]

\* The canonical ICU name of a locale name ("en-US" is "en_US").
Canon(localeName) ==
    CASE localeName = "en-US" -> "en_US"
      [] localeName = "fr-FR" -> "fr_FR"
      [] OTHER -> ""

\* GetLocale: the canonical name (no name when the canonicalization fails), and
\* the status the canonicalization gives.
GetLocale(m, localeName) ==
    Logged([m EXCEPT !.st = m.icu.getLocale,
                     !.str = IF U_FAILURE(m.icu.getLocale) THEN <<"">>
                             ELSE <<Canon(localeName)>>],
           Event("GetLocale", Query("GetLocale", 0, localeName, ""), "local", 0,
                 ULOC_FULLNAME_CAPACITY, m.icu.getLocale))

\* DetectDefaultLocaleName: the default locale of the process.
DetectDefaultLocaleName == "de_DE"

UErrorCodeToBool(st) == IF U_SUCCESS(st) THEN 1 ELSE 0

\* ------------------------------------------------------------- adapters
\* Mutant: the error path of unum_getSymbol returns before unum_close.
GetLocaleInfoDecimalFormatSymbol_Leak(m, locale, symbol, off, valueLength) ==
    LET m1 == unum_open([m EXCEPT !.st = U_ZERO_ERROR], locale)
        pFormat == m1.r
        m2 == unum_getSymbol(m1, locale, symbol, off, valueLength)
    IN IF U_FAILURE(m1.st) THEN m1
       ELSE IF U_FAILURE(m2.st) THEN m2
       ELSE unum_close(m2, pFormat)

GetLocaleInfoDecimalFormatSymbol(m, locale, symbol, off, valueLength) ==
    LET m1 == unum_open([m EXCEPT !.st = U_ZERO_ERROR], locale)
        pFormat == m1.r
    IN IF U_FAILURE(m1.st) THEN m1
       ELSE unum_close(unum_getSymbol(m1, locale, symbol, off, valueLength), pFormat)

\* Mutant: the previous status is not looked at.
GetDigitSymbol_NoShortCircuit(m, locale, previousStatus, symbol, digit, valueLength) ==
    GetLocaleInfoDecimalFormatSymbol(m, locale, symbol, digit, valueLength - digit)

\* Mutant: the capacity is not reduced by the offset.
GetDigitSymbol_FullCapacity(m, locale, previousStatus, symbol, digit, valueLength) ==
    IF U_FAILURE(previousStatus) THEN [m EXCEPT !.st = previousStatus]
    ELSE GetLocaleInfoDecimalFormatSymbol(m, locale, symbol, digit, valueLength)

GetDigitSymbol(m, locale, previousStatus, symbol, digit, valueLength) ==
    IF U_FAILURE(previousStatus) THEN [m EXCEPT !.st = previousStatus]
    ELSE GetLocaleInfoDecimalFormatSymbol(m, locale, symbol, digit, valueLength - digit)

GetLocaleInfoAmPm(m, locale, am, valueLength) ==
    LET m1 == udat_open([m EXCEPT !.st = U_ZERO_ERROR], "UDAT_DEFAULT", "UDAT_DEFAULT", locale)
        pFormat == m1.r
    IN IF U_FAILURE(m1.st) THEN m1
       ELSE udat_close(udat_getSymbols(m1, locale, "UDAT_AM_PMS", IF am THEN 0 ELSE 1,
                                       0, valueLength),
                       pFormat)

\* GetLocaleIso639LanguageTwoLetterName and GetLocaleIso3166CountryName: the same
\* code over uloc_getLanguage and uloc_getCountry.
GetLocaleViaTemp(m, fn, locale, valueLength) ==
    LET m1 == uloc_getChars([m EXCEPT !.st = U_ZERO_ERROR], fn, locale, 0)
        length == m1.r + 1
        m2 == calloc(m1, length)
        buf == m2.r
        m3 == uloc_getChars([m2 EXCEPT !.st = U_ZERO_ERROR, !.str = <<>>], fn, locale, length)
        m4 == IF U_SUCCESS(m3.st) THEN u_charsToUChars_safe(m3, CStr(m3.str), valueLength)
              ELSE m3
    IN IF buf = 0 THEN [m2 EXCEPT !.st = U_MEMORY_ALLOCATION_ERROR]
       ELSE free(m4, buf)

GetLocaleIso639LanguageTwoLetterName(m, locale, valueLength) ==
    GetLocaleViaTemp(m, "uloc_getLanguage", locale, valueLength)

GetLocaleIso3166CountryName(m, locale, valueLength) ==
    GetLocaleViaTemp(m, "uloc_getCountry", locale, valueLength)

GetLocaleIso639LanguageThreeLetterName(m, locale, valueLength) ==
    LET m1 == uloc_getISO3(m, "uloc_getISO3Language", locale)
        isoLanguage == m1.str
    IN IF isoLanguage = <<>> THEN [m1 EXCEPT !.st = U_ILLEGAL_ARGUMENT_ERROR]
       ELSE u_charsToUChars_safe(m1, isoLanguage, valueLength)

\* Mutant: the empty string is converted like any other.
GetLocaleIso3166CountryCode_NoEmptyCheck(m, locale, valueLength) ==
    LET m1 == uloc_getISO3(m, "uloc_getISO3Country", locale)
    IN u_charsToUChars_safe(m1, m1.str, valueLength)

GetLocaleIso3166CountryCode(m, locale, valueLength) ==
    LET m1 == uloc_getISO3(m, "uloc_getISO3Country", locale)
        pIsoCountryName == m1.str
        len == Len(pIsoCountryName)
    IN IF len = 0 THEN [m1 EXCEPT !.st = U_ILLEGAL_ARGUMENT_ERROR]
       ELSE u_charsToUChars_safe(m1, pIsoCountryName, valueLength)

\* Mutant: the length check leaves no room for the terminator.
GetLocaleCurrencyName_OffByOne(m, locale, nativeName, valueLength) ==
    LET m1 == ucurr_forLocale([m EXCEPT !.st = U_ZERO_ERROR], locale, CurrencyCodeCapacity)
        m2 == ucurr_getName(m1, CStr(m1.str), IF nativeName THEN locale ELSE ULOC_US)
        len == m2.r
    IN IF ~U_SUCCESS(m1.st) THEN m1
       ELSE IF ~U_SUCCESS(m2.st) THEN m2
       ELSE IF len > valueLength THEN [m2 EXCEPT !.st = U_BUFFER_OVERFLOW_ERROR]
       ELSE Store(Store(m2, 0, SubSeq(m2.str, 1, len)), len, <<NUL>>)

GetLocaleCurrencyName(m, locale, nativeName, valueLength) ==
    LET m1 == ucurr_forLocale([m EXCEPT !.st = U_ZERO_ERROR], locale, CurrencyCodeCapacity)
        currencyThreeLettersName == CStr(m1.str)
        m2 == ucurr_getName(m1, currencyThreeLettersName,
                            IF nativeName THEN locale ELSE ULOC_US)
        len == m2.r
        pCurrencyLongName == m2.str
    IN IF ~U_SUCCESS(m1.st) THEN m1
       ELSE IF ~U_SUCCESS(m2.st) THEN m2
       ELSE IF len >= valueLength THEN [m2 EXCEPT !.st = U_BUFFER_OVERFLOW_ERROR]
       ELSE Store(Store(m2, 0, SubSeq(pCurrencyLongName, 1, len)), len, <<NUL>>)

\* The Digits case: the zero digit, then the loop over UNUM_ONE_DIGIT_SYMBOL ..
\* UNUM_NINE_DIGIT_SYMBOL.
RECURSIVE DigitsLoop(_, _, _, _)
DigitsLoop(m, locale, symbol, valueLength) ==
    IF symbol > UNUM_NINE_DIGIT_SYMBOL THEN m
    ELSE LET charIndex == symbol - UNUM_ONE_DIGIT_SYMBOL + 1
         IN DigitsLoop(GetDigitSymbol(m, locale, m.st, symbol, charIndex, valueLength),
                       locale, symbol + 1, valueLength)

GetDigits(m, locale, valueLength) ==
    DigitsLoop(GetDigitSymbol(m, locale, m.st, UNUM_ZERO_DIGIT_SYMBOL, 0, valueLength),
               locale, UNUM_ONE_DIGIT_SYMBOL, valueLength)

GetParentName(m, locale, valueLength) ==
    LET m1 == uloc_getChars(m, "uloc_getParent", locale, ULOC_FULLNAME_CAPACITY)
        localeNameTemp == CStr(m1.str)
        m2 == u_charsToUChars_safe(m1, localeNameTemp, valueLength)
    IN IF ~U_SUCCESS(m1.st) THEN m1
       ELSE IF U_SUCCESS(m2.st) THEN FixupLocaleName(m2, valueLength)
       ELSE m2

\* ------------------------------------------------------- LocaleStringData
SymbolFields ==
    {"ListSeparator", "ThousandSeparator", "DecimalSeparator", "MonetarySymbol",
     "Iso4217MonetarySymbol", "MonetaryDecimalSeparator", "MonetaryThousandSeparator",
     "PositiveSign", "NegativeSign", "NaNSymbol", "PositiveInfinitySymbol",
     "PercentSymbol", "PerMilleSymbol"}

DisplayFields ==
    {"LocalizedDisplayName", "EnglishDisplayName", "NativeDisplayName",
     "LocalizedLanguageName", "EnglishLanguageName", "NativeLanguageName",
     "EnglishCountryName", "NativeCountryName"}

LocaleStringData ==
    SymbolFields \cup DisplayFields \cup
    {"Digits", "CurrencyEnglishName", "CurrencyNativeName", "AMDesignator", "PMDesignator",
     "Iso639LanguageTwoLetterName", "Iso639LanguageThreeLetterName", "Iso3166CountryName",
     "Iso3166CountryName2", "ParentName"}

\* A field ID that is none of the enumerated values.
NotAField == "NotAField"

\* Mutant: the default case leaves the status as it is.
DispatchDefault_KeepStatus(m) == m

\* The default case of the switch.
DispatchDefault(m) == [m EXCEPT !.st = U_UNSUPPORTED_ERROR]

\* Mutant: the list separator is the decimal separator, not the grouping separator.
ListSeparatorSymbol_Decimal == UNUM_DECIMAL_SEPARATOR_SYMBOL

\* The symbol of the ListSeparator case, which falls through to ThousandSeparator.
ListSeparatorSymbol == UNUM_GROUPING_SEPARATOR_SYMBOL

\* The switch of GlobalizationNative_GetLocaleInfoString.
Dispatch(m, locale, localeStringData, valueLength) ==
    LET sym(symbol) == GetLocaleInfoDecimalFormatSymbol(m, locale, symbol, 0, valueLength)
        disp(fn, displayLocale) == uloc_getDisplay(m, fn, locale, displayLocale, 0, valueLength)
        f == localeStringData
    IN CASE f = "LocalizedDisplayName" -> disp("uloc_getDisplayName", DetectDefaultLocaleName)
         [] f = "EnglishDisplayName" -> disp("uloc_getDisplayName", ULOC_ENGLISH)
         [] f = "NativeDisplayName" -> disp("uloc_getDisplayName", locale)
         [] f = "LocalizedLanguageName" -> disp("uloc_getDisplayLanguage", DetectDefaultLocaleName)
         [] f = "EnglishLanguageName" -> disp("uloc_getDisplayLanguage", ULOC_ENGLISH)
         [] f = "NativeLanguageName" -> disp("uloc_getDisplayLanguage", locale)
         [] f = "EnglishCountryName" -> disp("uloc_getDisplayCountry", ULOC_ENGLISH)
         [] f = "NativeCountryName" -> disp("uloc_getDisplayCountry", locale)
         [] f = "ListSeparator" -> sym(ListSeparatorSymbol)
         [] f = "ThousandSeparator" -> sym(UNUM_GROUPING_SEPARATOR_SYMBOL)
         [] f = "DecimalSeparator" -> sym(UNUM_DECIMAL_SEPARATOR_SYMBOL)
         [] f = "Digits" -> GetDigits(m, locale, valueLength)
         [] f = "MonetarySymbol" -> sym(UNUM_CURRENCY_SYMBOL)
         [] f = "Iso4217MonetarySymbol" -> sym(UNUM_INTL_CURRENCY_SYMBOL)
         [] f = "CurrencyEnglishName" -> GetLocaleCurrencyName(m, locale, FALSE, valueLength)
         [] f = "CurrencyNativeName" -> GetLocaleCurrencyName(m, locale, TRUE, valueLength)
         [] f = "MonetaryDecimalSeparator" -> sym(UNUM_MONETARY_SEPARATOR_SYMBOL)
         [] f = "MonetaryThousandSeparator" -> sym(UNUM_MONETARY_GROUPING_SEPARATOR_SYMBOL)
         [] f = "AMDesignator" -> GetLocaleInfoAmPm(m, locale, TRUE, valueLength)
         [] f = "PMDesignator" -> GetLocaleInfoAmPm(m, locale, FALSE, valueLength)
         [] f = "PositiveSign" -> sym(UNUM_PLUS_SIGN_SYMBOL)
         [] f = "NegativeSign" -> sym(UNUM_MINUS_SIGN_SYMBOL)
         [] f = "Iso639LanguageTwoLetterName" ->
                GetLocaleIso639LanguageTwoLetterName(m, locale, valueLength)
         [] f = "Iso639LanguageThreeLetterName" ->
                GetLocaleIso639LanguageThreeLetterName(m, locale, valueLength)
         [] f = "Iso3166CountryName" -> GetLocaleIso3166CountryName(m, locale, valueLength)
         [] f = "Iso3166CountryName2" -> GetLocaleIso3166CountryCode(m, locale, valueLength)
         [] f = "NaNSymbol" -> sym(UNUM_NAN_SYMBOL)
         [] f = "PositiveInfinitySymbol" -> sym(UNUM_INFINITY_SYMBOL)
         [] f = "ParentName" -> GetParentName(m, locale, valueLength)
         [] f = "PercentSymbol" -> sym(UNUM_PERCENT_SYMBOL)
         [] f = "PerMilleSymbol" -> sym(UNUM_PERMILL_SYMBOL)
         [] OTHER -> DispatchDefault(m)

\* A PAL entry point's outcome: the value returned and the machine it leaves.
Outcome(r, m) == [ret |-> r, m |-> m]

GetLocaleInfoStringReturn(m) == Outcome(UErrorCodeToBool(m.st), m)

\* Mutant: the status of GetLocale is not looked at.
GetLocaleInfoStringGate_None(m) == FALSE

\* The test of the early return of GlobalizationNative_GetLocaleInfoString.
GetLocaleInfoStringGate(m) == U_FAILURE(m.st)

GlobalizationNative_GetLocaleInfoString(m, localeName, localeStringData, valueLength) ==
    LET m0 == GetLocale(m, localeName)
        locale == m0.str[1]
    IN IF GetLocaleInfoStringGate(m0)
       THEN Outcome(UErrorCodeToBool(U_ILLEGAL_ARGUMENT_ERROR), m0)
       ELSE GetLocaleInfoStringReturn(Dispatch(m0, locale, localeStringData, valueLength))

\* Mutant: only U_ZERO_ERROR counts as success, a warning as a failure.
GetLocaleTimeFormatReturn_ZeroOnly(m) == Outcome(IF m.st = U_ZERO_ERROR THEN 1 ELSE 0, m)

GetLocaleTimeFormatReturn(m) == Outcome(UErrorCodeToBool(m.st), m)

GlobalizationNative_GetLocaleTimeFormat(m, localeName, shortFormat, valueLength) ==
    LET m0 == GetLocale(m, localeName)
        locale == m0.str[1]
        style == IF shortFormat # 0 THEN "UDAT_SHORT" ELSE "UDAT_MEDIUM"
        m1 == udat_open(m0, style, "UDAT_NONE", locale)
        pFormat == m1.r
        m2 == udat_close(udat_toPattern(m1, locale, style, 0, valueLength), pFormat)
    IN IF U_FAILURE(m0.st) THEN Outcome(UErrorCodeToBool(U_ILLEGAL_ARGUMENT_ERROR), m0)
       ELSE IF U_FAILURE(m1.st) THEN GetLocaleTimeFormatReturn(m1)
       ELSE GetLocaleTimeFormatReturn(m2)

\* ------------------------------------------------------------ the inputs
LocaleNames == {"en-US", "fr-FR"}
ValueLengths == {-1} \cup (0..MaxValueLength)
NumDigits == 10
FaultStatuses == {U_MEMORY_ALLOCATION_ERROR, U_UNSUPPORTED_ERROR}
OpenStatuses == {U_ZERO_ERROR, U_USING_DEFAULT_WARNING}

NoAnswers ==
    [getLocale |-> U_ZERO_ERROR, len |-> 0, faultAt |-> 0,
     faultStatus |-> U_MEMORY_ALLOCATION_ERROR, openStatus |-> U_ZERO_ERROR,
     callocNull |-> FALSE]

\* The library's answers for one call: a failed canonicalization, or a successful
\* one with the answers for the adapter.  A digit symbol is 1..MaxDigitLen code
\* units long (never empty); any other string 0..MaxStr.
IcuAnswers(digits) ==
    {[NoAnswers EXCEPT !.getLocale = U_ILLEGAL_ARGUMENT_ERROR]} \cup
    {a \in [getLocale : {U_ZERO_ERROR},
            len : IF digits THEN 1..MaxDigitLen ELSE 0..MaxStr,
            faultAt : 0..(IF digits THEN 2 * NumDigits ELSE MaxFaultAt),
            faultStatus : FaultStatuses,
            openStatus : OpenStatuses,
            callocNull : BOOLEAN] :
        a.faultAt = 0 => a.faultStatus = U_MEMORY_ALLOCATION_ERROR}

Buffer(valueLength) == [i \in 1..valueLength |-> Junk]

NoCall == [fn |-> "none", localeName |-> "", field |-> "", shortFormat |-> 0, valueLength |-> 0]

\* ------------------------------------------------------------ the actions
Init ==
    /\ pc = "idle"
    /\ call = NoCall
    /\ icu = NoAnswers
    /\ before = <<>>
    /\ value = <<>>
    /\ ret = 0
    /\ status = U_ZERO_ERROR
    /\ log = <<>>
    /\ numOpen = 0
    /\ datOpen = 0
    /\ bufLive = 0
    /\ badClose = FALSE
    /\ oob = FALSE

\* The state a call leaves: what it returned and wrote, and the handles it left.
Returned(c, answers, buf, o) ==
    /\ pc' = "returned"
    /\ call' = c
    /\ icu' = answers
    /\ before' = buf
    /\ value' = o.m.value
    /\ ret' = o.ret
    /\ status' = o.m.st
    /\ log' = o.m.log
    /\ numOpen' = numOpen + o.m.hNum
    /\ datOpen' = datOpen + o.m.hDat
    /\ bufLive' = bufLive + o.m.hBuf
    /\ badClose' = o.m.badClose
    /\ oob' = o.m.oob

CallGetLocaleInfoString ==
    /\ pc = "idle"
    /\ \E localeName \in LocaleNames, field \in LocaleStringData \cup {NotAField},
          valueLength \in ValueLengths :
         \E answers \in IcuAnswers(field = "Digits") :
            LET buf == Buffer(valueLength)
            IN Returned([fn |-> "GetLocaleInfoString", localeName |-> localeName,
                         field |-> field, shortFormat |-> 0, valueLength |-> valueLength],
                        answers, buf,
                        GlobalizationNative_GetLocaleInfoString(
                            M0(buf, answers), localeName, field, valueLength))

CallGetLocaleTimeFormat ==
    /\ pc = "idle"
    /\ \E localeName \in LocaleNames, shortFormat \in {0, 1},
          valueLength \in ValueLengths :
         \E answers \in IcuAnswers(FALSE) :
            LET buf == Buffer(valueLength)
            IN Returned([fn |-> "GetLocaleTimeFormat", localeName |-> localeName,
                         field |-> "", shortFormat |-> shortFormat,
                         valueLength |-> valueLength],
                        answers, buf,
                        GlobalizationNative_GetLocaleTimeFormat(
                            M0(buf, answers), localeName, shortFormat, valueLength))

\* The caller takes the result; the handles a call left open stay open.
TakeResult ==
    /\ pc = "returned"
    /\ pc' = "idle"
    /\ call' = NoCall
    /\ icu' = NoAnswers
    /\ before' = <<>>
    /\ value' = <<>>
    /\ ret' = 0
    /\ status' = U_ZERO_ERROR
    /\ log' = <<>>
    /\ badClose' = FALSE
    /\ oob' = FALSE
    /\ UNCHANGED <<numOpen, datOpen, bufLive>>

Next == CallGetLocaleInfoString \/ CallGetLocaleTimeFormat \/ TakeResult

Spec == Init /\ [][Next]_vars

\* ============================================================ the claims
Done == pc = "returned"
InfoCall == Done /\ call.fn = "GetLocaleInfoString"
TimeCall == Done /\ call.fn = "GetLocaleTimeFormat"
Canonicalized == Done /\ U_SUCCESS(icu.getLocale)
FieldIs(fields) == InfoCall /\ Canonicalized /\ call.field \in fields
CallLocale == Canon(call.localeName)
EventsOf(fns) == {i \in DOMAIN log : log[i].fn \in fns}
Last(sq) == sq[Len(sq)]

\* The string a buffer holds: its units before the first terminator.
BufferString(buf) == CStr(buf)

\* The library's string for query q in this call, as UChars.
LibraryString(q) == Answer(q, IF q.fn = "ucurr_forLocale" THEN 3 ELSE icu.len, 16)

\* The functions of the library that return a string.
StringQueries ==
    {"unum_getSymbol", "udat_getSymbols", "udat_toPattern", "uloc_getDisplayName",
     "uloc_getDisplayLanguage", "uloc_getDisplayCountry", "uloc_getLanguage",
     "uloc_getCountry", "uloc_getParent", "uloc_getISO3Language", "uloc_getISO3Country",
     "ucurr_getName"}

\* The fields whose adapter passes the library's status through unchanged.
PassThroughFields == SymbolFields \cup DisplayFields \cup {"AMDesignator", "PMDesignator"}

\* C1: both entry points return 0 or 1, and 1 exactly when the final status is no
\* failure code; for the time format and the pass-through adapters that is exactly
\* when no library call of the adapter ended in a failure.
C1_ReturnIsSuccessFlag ==
    Done =>
        /\ ret \in {0, 1}
        /\ (ret = 1) <=> ~(status > U_ZERO_ERROR)
        /\ (ret = 0) <=> status \in {U_ILLEGAL_ARGUMENT_ERROR, U_BUFFER_OVERFLOW_ERROR,
                                    U_MEMORY_ALLOCATION_ERROR, U_UNSUPPORTED_ERROR}
        /\ (TimeCall \/ FieldIs(PassThroughFields)) =>
              /\ status = Last(log).st
              /\ (ret = 1) <=> \A i \in DOMAIN log : log[i].st <= U_ZERO_ERROR

C1_Witness ==
    /\ TimeCall
    /\ ret = 1
    /\ status = U_STRING_NOT_TERMINATED_WARNING
    /\ call.valueLength > 0

\* C2: after any sequence of calls no number-format handle, date-format handle or
\* calloc'ed buffer is left open, and nothing is closed whose open failed.
C2_NoLeak ==
    /\ numOpen = 0
    /\ datOpen = 0
    /\ bufLive = 0
    /\ ~badClose
    /\ Done => /\ Cardinality(EventsOf({"unum_open", "udat_open"})) >=
                    Cardinality(EventsOf({"unum_close", "udat_close"}))
               /\ \A i \in EventsOf({"unum_close", "udat_close", "free"}) :
                     \E j \in 1..(i - 1) :
                        /\ log[j].fn = (CASE log[i].fn = "unum_close" -> "unum_open"
                                          [] log[i].fn = "udat_close" -> "udat_open"
                                          [] OTHER -> "calloc")
                        /\ log[j].st <= U_ZERO_ERROR

\* An error path that had a handle to release: the query on the open handle failed.
C2_Witness ==
    /\ FieldIs(SymbolFields)
    /\ ret = 0
    /\ EventsOf({"unum_close"}) # {}
    /\ \E i \in EventsOf({"unum_getSymbol"}) : log[i].st > U_ZERO_ERROR

\* C5: the canonicalization is the first call made, and when it fails the entry
\* point returns 0 having made no other call, opened no handle and left the
\* output buffer as it was.
C5_CanonicalizationGates ==
    Done =>
        /\ log[1].fn = "GetLocale"
        /\ U_FAILURE(icu.getLocale) =>
              /\ ret = 0
              /\ Len(log) = 1
              /\ value = before
              /\ numOpen = 0 /\ datOpen = 0 /\ bufLive = 0

C5_Witness ==
    /\ InfoCall
    /\ U_FAILURE(icu.getLocale)
    /\ call.field = "Digits"
    /\ call.valueLength > 0
    /\ ret = 0

\* C6: for a field ID that is no LocaleStringData value the status is
\* U_UNSUPPORTED_ERROR, 0 is returned, no adapter is called and the output buffer
\* is left as it was.
C6_UnsupportedField ==
    (InfoCall /\ Canonicalized /\ call.field \notin LocaleStringData) =>
        /\ status = U_UNSUPPORTED_ERROR
        /\ ret = 0
        /\ Len(log) = 1
        /\ value = before

C6_Witness ==
    /\ InfoCall /\ Canonicalized
    /\ call.field = NotAField
    /\ call.valueLength > 0
    /\ ret = 0

\* The k-th digit symbol, k in 0..9.
DigitSymbol(k) == IF k = 0 THEN UNUM_ZERO_DIGIT_SYMBOL ELSE UNUM_ONE_DIGIT_SYMBOL + k - 1

IsGetSymbol(e) == e.fn = "unum_getSymbol"
DigitFetches == SelectSeq(log, IsGetSymbol)

\* C7: for Digits the digit symbols are fetched in order, digit k at buffer
\* position k; after the first failing library call of a fetch no further fetch
\* is made, the status is that failure's, and 1 is returned only if all ten
\* fetches succeeded.
C7_DigitsShortCircuit ==
    FieldIs({"Digits"}) =>
        /\ \A k \in 1..Len(DigitFetches) :
              /\ DigitFetches[k].q.sym = DigitSymbol(k - 1)
              /\ DigitFetches[k].off = k - 1
              /\ DigitFetches[k].dst = "value"
        /\ \A i \in EventsOf({"unum_open", "unum_getSymbol"}) :
              log[i].st > U_ZERO_ERROR =>
                 /\ \A j \in EventsOf({"unum_open", "unum_getSymbol"}) : j <= i
                 /\ status = log[i].st
                 /\ ret = 0
        /\ (ret = 1) =>
              /\ Len(DigitFetches) = NumDigits
              /\ \A k \in 1..NumDigits : DigitFetches[k].st <= U_ZERO_ERROR

\* The fetch of a digit in the middle fails, in the library and not for lack of room.
C7_Witness ==
    /\ FieldIs({"Digits"})
    /\ call.valueLength > NumDigits
    /\ Len(DigitFetches) = 4
    /\ Last(DigitFetches).st = U_MEMORY_ALLOCATION_ERROR
    /\ ret = 0

\* C8: GetLocaleCurrencyName writes nothing outside the caller's buffer; a name of
\* len >= valueLength units gives U_BUFFER_OVERFLOW_ERROR and an unchanged buffer;
\* a shorter one is written as exactly len units and a terminator at index len; a
\* failed currency or name lookup gives its status and an unchanged buffer.
C8_CurrencyNameBounds ==
    FieldIs({"CurrencyEnglishName", "CurrencyNativeName"}) =>
        LET len == icu.len
            lookedUp == Len(log) = 3 /\ log[2].st <= U_ZERO_ERROR /\ log[3].st <= U_ZERO_ERROR
        IN /\ ~oob
           /\ log[2].fn = "ucurr_forLocale"
           /\ log[2].st > U_ZERO_ERROR => (Len(log) = 2 /\ status = log[2].st /\ value = before)
           /\ log[2].st <= U_ZERO_ERROR => (Len(log) = 3 /\ log[3].fn = "ucurr_getName")
           /\ (Len(log) = 3 /\ log[3].st > U_ZERO_ERROR) =>
                 (status = log[3].st /\ value = before)
           /\ (lookedUp /\ len >= call.valueLength) =>
                 (status = U_BUFFER_OVERFLOW_ERROR /\ value = before)
           /\ (lookedUp /\ len < call.valueLength) =>
                 /\ status <= U_ZERO_ERROR
                 /\ SubSeq(value, 1, len) = LibraryString(log[3].q)
                 /\ value[len + 1] = NUL
                 /\ \A j \in (len + 2)..Len(value) : value[j] = before[j]

\* The name and its terminator fill the buffer exactly.
C8_Witness ==
    /\ FieldIs({"CurrencyNativeName"})
    /\ ret = 1
    /\ icu.len > 0
    /\ icu.len = call.valueLength - 1

\* C9: for valueLength >= 0 every capacity passed to the library or to the
\* conversion is non-negative, and a region of the caller's buffer that is passed
\* lies inside [0, valueLength).
C9_CapacitiesInBounds ==
    (InfoCall /\ call.valueLength >= 0) =>
        \A i \in DOMAIN log :
            /\ log[i].cap >= 0
            /\ log[i].dst = "value" =>
                  /\ log[i].off >= 0
                  /\ log[i].off + log[i].cap <= call.valueLength

\* Digits into a buffer of fewer than ten units: the last fetch gets capacity 0.
C9_Witness ==
    /\ FieldIs({"Digits"})
    /\ call.valueLength = 4
    /\ Len(DigitFetches) = 5
    /\ Last(DigitFetches).cap = 0
    /\ Last(DigitFetches).st = U_BUFFER_OVERFLOW_ERROR

\* C10: for the three-letter ISO fields an empty library string gives
\* U_ILLEGAL_ARGUMENT_ERROR, the return value 0, no conversion and an unchanged
\* buffer; a non-empty one is converted into the buffer, and the status of the
\* conversion is the result.
C10_ThreeLetterIso ==
    FieldIs({"Iso639LanguageThreeLetterName", "Iso3166CountryName2"}) =>
        LET fn == IF call.field = "Iso639LanguageThreeLetterName"
                  THEN "uloc_getISO3Language" ELSE "uloc_getISO3Country"
            q == Query(fn, 0, "", CallLocale)
        IN /\ Len(log) >= 2 /\ log[2].fn = fn /\ log[2].q = q
           /\ icu.len = 0 =>
                 /\ status = U_ILLEGAL_ARGUMENT_ERROR
                 /\ ret = 0
                 /\ value = before
                 /\ Len(log) = 2
           /\ icu.len > 0 =>
                 /\ Len(log) = 3
                 /\ log[3].fn = "u_charsToUChars_safe" /\ log[3].q = q
                 /\ log[3].cap = call.valueLength
                 /\ status = log[3].st
                 /\ ret = UErrorCodeToBool(log[3].st)
                 /\ ret = 1 => BufferString(value) = LibraryString(q)
                 /\ ret = 0 => value = before

C10_Witness ==
    /\ FieldIs({"Iso3166CountryName2"})
    /\ icu.len = 0
    /\ call.valueLength > 0
    /\ ret = 0
    /\ status = U_ILLEGAL_ARGUMENT_ERROR

\* The query the claim assigns to a field ID that has a single one.
C4_Query(f, locale) ==
    LET sym(symbol) == Query("unum_getSymbol", symbol, "", locale)
        disp(fn, displayLocale) == Query(fn, 0, displayLocale, locale)
    IN CASE f = "LocalizedDisplayName" -> disp("uloc_getDisplayName", DetectDefaultLocaleName)
         [] f = "EnglishDisplayName" -> disp("uloc_getDisplayName", "en")
         [] f = "NativeDisplayName" -> disp("uloc_getDisplayName", locale)
         [] f = "LocalizedLanguageName" -> disp("uloc_getDisplayLanguage", DetectDefaultLocaleName)
         [] f = "EnglishLanguageName" -> disp("uloc_getDisplayLanguage", "en")
         [] f = "NativeLanguageName" -> disp("uloc_getDisplayLanguage", locale)
         [] f = "EnglishCountryName" -> disp("uloc_getDisplayCountry", "en")
         [] f = "NativeCountryName" -> disp("uloc_getDisplayCountry", locale)
         [] f = "ListSeparator" -> sym(UNUM_GROUPING_SEPARATOR_SYMBOL)
         [] f = "ThousandSeparator" -> sym(UNUM_GROUPING_SEPARATOR_SYMBOL)
         [] f = "DecimalSeparator" -> sym(UNUM_DECIMAL_SEPARATOR_SYMBOL)
         [] f = "MonetarySymbol" -> sym(UNUM_CURRENCY_SYMBOL)
         [] f = "Iso4217MonetarySymbol" -> sym(UNUM_INTL_CURRENCY_SYMBOL)
         [] f = "CurrencyEnglishName" -> Query("ucurr_getName", 0, locale, "en_US")
         [] f = "CurrencyNativeName" -> Query("ucurr_getName", 0, locale, locale)
         [] f = "MonetaryDecimalSeparator" -> sym(UNUM_MONETARY_SEPARATOR_SYMBOL)
         [] f = "MonetaryThousandSeparator" -> sym(UNUM_MONETARY_GROUPING_SEPARATOR_SYMBOL)
         [] f = "AMDesignator" -> Query("udat_getSymbols", 0, "UDAT_AM_PMS", locale)
         [] f = "PMDesignator" -> Query("udat_getSymbols", 1, "UDAT_AM_PMS", locale)
         [] f = "PositiveSign" -> sym(UNUM_PLUS_SIGN_SYMBOL)
         [] f = "NegativeSign" -> sym(UNUM_MINUS_SIGN_SYMBOL)
         [] f = "Iso639LanguageTwoLetterName" -> disp("uloc_getLanguage", "")
         [] f = "Iso639LanguageThreeLetterName" -> disp("uloc_getISO3Language", "")
         [] f = "Iso3166CountryName" -> disp("uloc_getCountry", "")
         [] f = "Iso3166CountryName2" -> disp("uloc_getISO3Country", "")
         [] f = "NaNSymbol" -> sym(UNUM_NAN_SYMBOL)
         [] f = "PositiveInfinitySymbol" -> sym(UNUM_INFINITY_SYMBOL)
         [] f = "ParentName" -> disp("uloc_getParent", "")
         [] f = "PercentSymbol" -> sym(UNUM_PERCENT_SYMBOL)
         [] f = "PerMilleSymbol" -> sym(UNUM_PERMILL_SYMBOL)

\* A string with every '_' replaced by '-'.
Dashed(str) == [i \in 1..Len(str) |-> IF str[i].c = "_" THEN [str[i] EXCEPT !.c = "-"] ELSE str[i]]

\* What the call would have given for another field ID, all else the same.
SameCallFor(f) ==
    GlobalizationNative_GetLocaleInfoString(M0(before, icu), call.localeName, f, call.valueLength)

\* C4 as claimed: for every supported field ID, when 1 is returned the string in
\* the output buffer is the string the library returns for one query of the call.
C4_Original ==
    (InfoCall /\ Canonicalized /\ call.field \in LocaleStringData /\ ret = 1) =>
        \E i \in EventsOf(StringQueries) : BufferString(value) = LibraryString(log[i].q)

\* C4 as amended: for every supported field ID but Digits and ParentName, when 1 is
\* returned the string in the output buffer is the library's string for the one
\* query assigned to the field; for Digits, positions 0..9 hold the first code
\* unit of the ten digit symbols, one query each; for ParentName, the library's
\* parent name with every '_' replaced by '-'.  ListSeparator gives what
\* ThousandSeparator gives, whatever is returned.
C4_DispatchTable ==
    (InfoCall /\ Canonicalized /\ call.field \in LocaleStringData) =>
        /\ (ret = 1 /\ call.field \notin {"Digits", "ParentName"}) =>
              BufferString(value) = LibraryString(C4_Query(call.field, CallLocale))
        /\ (ret = 1 /\ call.field = "Digits") =>
              \A k \in 0..(NumDigits - 1) :
                 value[k + 1] =
                    LibraryString(Query("unum_getSymbol", DigitSymbol(k), "", CallLocale))[1]
        /\ (ret = 1 /\ call.field = "ParentName") =>
              BufferString(value) = Dashed(LibraryString(C4_Query("ParentName", CallLocale)))
        /\ call.field = "ListSeparator" =>
              /\ ret = SameCallFor("ThousandSeparator").ret
              /\ value = SameCallFor("ThousandSeparator").m.value
              /\ status = SameCallFor("ThousandSeparator").m.st

C4_Witness ==
    /\ FieldIs({"ListSeparator"})
    /\ ret = 1
    /\ icu.len > 1
    /\ call.valueLength > icu.len

====
